---- MODULE Spec2Model ----
(***************************************************************************)
(* Model of src/app.py: the /calculate-calories request handler, its two   *)
(* estimators and the reconciliation of the produced features against the  *)
(* model's FEATURE_COLUMNS.                                                *)
(*                                                                         *)
(* Numbers.  Floats are modelled by exact arithmetic: a request number is  *)
(* an integer count of tenths (30 years = 300), and every derived quantity *)
(* is a fraction [num, den] with the denominator fixed by the formula that *)
(* produces it.  NaN is kept as a value of its own, since float("nan")     *)
(* succeeds and every comparison with it is false.  round() is the one     *)
(* place where a float's error could show: see RoundHalfEven.              *)
(*                                                                         *)
(* Text.  A Python str is a sequence of one-character strings, so that     *)
(* str.lower() and float(str) are computed character by character.         *)
(***************************************************************************)
EXTENDS Integers, Sequences, FiniteSets, TLC

(***************************************************************************)
(* Bounds of the model.                                                    *)
(***************************************************************************)
\* A request body differs from the reference body in at most this many fields.
MaxChanged == 2
\* Worker threads serving requests concurrently (specification SpecConc).
NumThreads == 2

(***************************************************************************)
(* JSON values of a request body                                           *)
(***************************************************************************)
JNum(n)  == [t |-> "num",  n |-> n, s |-> <<>>]     \* n tenths
JStr(s)  == [t |-> "str",  n |-> 0, s |-> s]
JBool(b) == [t |-> "bool", n |-> b, s |-> <<>>]     \* true = 1, false = 0
JNull    == [t |-> "null", n |-> 0, s |-> <<>>]
JList    == [t |-> "list", n |-> 0, s |-> <<>>]     \* a JSON array
JObj     == [t |-> "obj",  n |-> 0, s |-> <<>>]     \* a JSON object
\* What data[key] stands for when the body has no such key.
Absent   == [t |-> "absent", n |-> 0, s |-> <<>>]

\* A Python float: a count of tenths, or NaN.
Fin(x) == [nan |-> FALSE, x |-> x]
NaN    == [nan |-> TRUE,  x |-> 0]

\* Python's chained comparison lo <= v <= hi on floats (false for NaN);
\* lo and hi are whole numbers.
Between(lo, v, hi) == ~v.nan /\ lo * 10 <= v.x /\ v.x <= hi * 10

\* The result of an expression that may raise.
Ok(v)      == [exc |-> "none", val |-> v]
Raise(e)   == [exc |-> e, val |-> NaN]

(***************************************************************************)
(* str.lower(), str.strip() and float()                                    *)
(***************************************************************************)
UpperCase == <<"A","B","C","D","E","F","G","H","I","J","K","L","M",
               "N","O","P","Q","R","S","T","U","V","W","X","Y","Z">>
LowerCase == <<"a","b","c","d","e","f","g","h","i","j","k","l","m",
               "n","o","p","q","r","s","t","u","v","w","x","y","z">>

LowerChar(c) ==
    IF \E i \in DOMAIN UpperCase : UpperCase[i] = c
    THEN LowerCase[CHOOSE i \in DOMAIN UpperCase : UpperCase[i] = c]
    ELSE c

Lower(s) == [i \in DOMAIN s |-> LowerChar(s[i])]

RECURSIVE LStrip(_)
LStrip(s) == IF s # <<>> /\ Head(s) = " " THEN LStrip(Tail(s)) ELSE s

RECURSIVE RStrip(_)
RStrip(s) ==
    IF s # <<>> /\ s[Len(s)] = " " THEN RStrip(SubSeq(s, 1, Len(s) - 1)) ELSE s

Strip(s) == RStrip(LStrip(s))

Digits == <<"0","1","2","3","4","5","6","7","8","9">>
IsDigit(c) == \E i \in DOMAIN Digits : Digits[i] = c
DigitVal(c) == (CHOOSE i \in DOMAIN Digits : Digits[i] = c) - 1

RECURSIVE DigitsVal(_)
DigitsVal(s) ==
    IF s = <<>> THEN 0
    ELSE DigitsVal(SubSeq(s, 1, Len(s) - 1)) * 10 + DigitVal(s[Len(s)])

\* The position of the first "." of s, or Len(s) + 1.
RECURSIVE DotAt(_, _)
DotAt(s, i) == IF i > Len(s) \/ s[i] = "." THEN i ELSE DotAt(s, i + 1)

\* float(str) on the decimal and "nan" forms: surrounding blanks are
\* stripped, a sign is optional, then either "nan" in any case or digits
\* with at most one ".", at least one digit in all. The value is kept to
\* the first fractional digit (the strings of the model have at most one).
\* Anything else raises ValueError.
ParseFloat(s) ==
    LET b == Strip(s)
        signed == b # <<>> /\ Head(b) \in {"+", "-"}
        neg == b # <<>> /\ Head(b) = "-"
        u == IF signed THEN Tail(b) ELSE b
        d == DotAt(u, 1)
        ip == SubSeq(u, 1, d - 1)
        fp == SubSeq(u, d + 1, Len(u))
        allDigits(q) == \A i \in DOMAIN q : IsDigit(q[i])
        mag == DigitsVal(ip) * 10 + (IF fp = <<>> THEN 0 ELSE DigitVal(fp[1]))
    IN  IF Lower(u) = <<"n","a","n">> THEN Ok(NaN)
        ELSE IF allDigits(ip) /\ allDigits(fp) /\ Len(ip) + Len(fp) > 0
             THEN Ok(Fin(IF neg THEN 0 - mag ELSE mag))
             ELSE Raise("ValueError")

\* float(v) for a JSON value v (src/app.py:58-61); the subscript that
\* finds no key raises KeyError before float is called.
PyFloat(v) ==
    CASE v.t = "absent" -> Raise("KeyError")
      [] v.t = "num"  -> Ok(Fin(v.n))
      [] v.t = "bool" -> Ok(Fin(v.n * 10))
      [] v.t = "str"  -> ParseFloat(v.s)
      [] OTHER        -> Raise("TypeError")

(***************************************************************************)
(* Fractions, rounding                                                     *)
(***************************************************************************)
Q(num, den) == [num |-> num, den |-> den]

\* Rounding with ties upwards, as schoolbook rounding has it.
RoundHalfUp(n, d) == (2 * n + d) \div (2 * d)

\* n / d rounded to the nearest integer, ties to the even one: what Python's
\* round() does with a float that lies exactly between two candidates, as
\* 38.125 does. A tie with no exact binary form (39.225) is rounded by
\* Python as the float's error falls; the requests of the model produce no
\* such sum except 37.025 (duration 1, Cardio), which Python rounds to the
\* even 37.02 as well.
RoundHalfEven(n, d) ==
    LET q == n \div d
        r == n % d
    IN  IF 2 * r < d THEN q
        ELSE IF 2 * r > d THEN q + 1
        ELSE IF q % 2 = 0 THEN q ELSE q + 1

\* round(x, 2), in hundredths; the denominators of the model are multiples
\* of 100.
Round2(x) == RoundHalfEven(x.num, x.den \div 100)

(***************************************************************************)
(* The estimators (src/app.py:14-44)                                       *)
(***************************************************************************)
CARDIO     == <<"C","a","r","d","i","o">>
ENDURANCE  == <<"E","n","d","u","r","a","n","c","e">>
STRENGTH   == <<"S","t","r","e","n","g","t","h">>
NO_WORKOUT == <<"N","o"," ","W","o","r","k","o","u","t">>

\* dict.get(key, default) on a dict with str keys: an unhashable key (a list
\* or a dict) raises TypeError, a key of the dict gives its value, any other
\* hashable key gives the default.
DictGet(dict, key, default) ==
    IF key.t \in {"list", "obj"} THEN [exc |-> "TypeError", val |-> default]
    ELSE IF key.t = "str" /\ key.s \in DOMAIN dict
         THEN [exc |-> "none", val |-> dict[key.s]]
         ELSE [exc |-> "none", val |-> default]

resting_hr == 70

\* Intensity, in hundredths.
intensity_factors ==
    (CARDIO :> 85) @@ (ENDURANCE :> 70) @@ (STRENGTH :> 50) @@ (NO_WORKOUT :> 30)

\* The duration factor without its floor of 0.5.
duration_factor_unfloored(duration) == 1800 - duration.x

\* max(0.5, 1 - duration / 180), in 1/1800 (duration in tenths of a minute).
duration_factor(duration) ==
    IF 1800 - duration.x > 900 THEN 1800 - duration.x ELSE 900

\* The denominator of the heart rate: tenths of a year, hundredths of
\* intensity, 1/1800 of duration factor.
HrDen == 10 * 100 * 1800

\* estimate_heart_rate(age, workout_type, duration): [exc, val], val the
\* heart rate as a fraction over HrDen. age and duration are finite floats
\* (the range checks of lines 65-72 have passed).
estimate_heart_rate(age, workout_type, duration) ==
    LET max_hr10 == 2200 - age.x
        intensity == DictGet(intensity_factors, workout_type, 30)
        estimated_hr == resting_hr * HrDen
                        + (max_hr10 - resting_hr * 10) * intensity.val
                          * duration_factor(duration)
        capped == IF estimated_hr < 200 * HrDen THEN estimated_hr ELSE 200 * HrDen
        clamped == IF capped > 60 * HrDen THEN capped ELSE 60 * HrDen
    IN  IF intensity.exc # "none"
        THEN [exc |-> intensity.exc, val |-> Q(0, HrDen)]
        ELSE [exc |-> "none", val |-> Q(clamped, HrDen)]

base_temp == 37

\* Degrees per hour, in tenths.
temp_increase_rate ==
    (CARDIO :> 15) @@ (ENDURANCE :> 10) @@ (STRENGTH :> 6) @@ (NO_WORKOUT :> 2)

\* estimate_body_temp(duration, workout_type): [exc, val], val the rounded
\* temperature as a fraction over 100. Before rounding the temperature is a
\* fraction over 6000: tenths of rate, tenths of a minute, 60 minutes.
estimate_body_temp(duration, workout_type) ==
    LET rate == DictGet(temp_increase_rate, workout_type, 2)
        temp_increase == rate.val * duration.x
        sum == Q(base_temp * 6000 + temp_increase, 6000)
    IN  IF rate.exc # "none"
        THEN [exc |-> rate.exc, val |-> Q(0, 100)]
        ELSE [exc |-> "none", val |-> Q(Round2(sum), 100)]

(***************************************************************************)
(* Responses (src/app.py:54, 66-72, 114-123)                               *)
(***************************************************************************)
\* A data frame of one row: the column names and, beside them, the values.
Frame(columns, row) == [columns |-> columns, row |-> row]
NoFrame == Frame(<<>>, <<>>)

\* jsonify({"error": msg}), status
Error(msg, status) ==
    [status |-> status, error |-> msg, exc |-> "",
     calories_burned |-> NoFrame,
     estimated_heart_rate |-> 0, estimated_body_temp |-> 0]

\* The two except clauses: ValueError answers 400, any other exception 500
\* with the exception in the message.
Except(exc) ==
    IF exc = "ValueError"
    THEN Error("Invalid input type. Ensure numerical values for age, height, weight, and duration.", 400)
    ELSE [Error("Server error", 500) EXCEPT !.exc = exc]

\* The success object. The predictor is opaque and deterministic: the
\* prediction is kept as the frame it was computed from, so that two
\* predictions are equal exactly when their frames are. The two estimates are
\* in hundredths.
Success(prediction, heart_rate, body_temp) ==
    [status |-> 200, error |-> "", exc |-> "",
     calories_burned |-> prediction,
     estimated_heart_rate |-> Round2(heart_rate),
     estimated_body_temp |-> Round2(body_temp)]

(***************************************************************************)
(* Validation and conversion (src/app.py:50-72)                            *)
(***************************************************************************)
\* The list without its last two entries.
required_fields_short == <<"gender", "age", "height", "weight">>

required_fields == <<"gender", "age", "height", "weight", "duration", "workout_type">>

\* The locals of calculate_calories, before any is assigned.
NoLocal ==
    [gender |-> 0, age |-> NaN, height |-> NaN, weight |-> NaN,
     duration |-> NaN, workout_type |-> JNull,
     heart_rate |-> Q(0, HrDen), body_temp |-> Q(0, 100)]

\* data["gender"].lower() == "male": 0 for male, 1 otherwise; a value that
\* is no str has no lower() and raises AttributeError.
GenderOf(v) ==
    IF v.t = "str"
    THEN [exc |-> "none", val |-> IF Lower(v.s) = <<"m","a","l","e">> THEN 0 ELSE 1]
    ELSE [exc |-> IF v.t = "absent" THEN "KeyError" ELSE "AttributeError", val |-> 0]

\* data[key]
Item(data, key) == IF key \in DOMAIN data THEN data[key] ELSE Absent

\* Continue(l): the handler goes on with locals l; Return(resp): it returns.
Continue(l)  == [returned |-> FALSE, response |-> Error("", 0), local |-> l]
Return(resp) == [returned |-> TRUE, response |-> resp, local |-> NoLocal]

\* all(field in data for field in required_fields)
AllPresent(data) ==
    \A i \in DOMAIN required_fields : required_fields[i] \in DOMAIN data

\* The four range checks, in the order of the code; "" when all pass.
RangeError(age, height, weight, duration) ==
    IF ~Between(10, age, 100) THEN "Age must be between 10 and 100"
    ELSE IF ~Between(50, height, 250) THEN "Height must be between 50 cm and 250 cm"
    ELSE IF ~Between(20, weight, 300) THEN "Weight must be between 20 kg and 300 kg"
    ELSE IF ~Between(1, duration, 300) THEN "Duration must be between 1 and 300 minutes"
    ELSE ""

\* Lines 50-72 on the request body `data`, a function from the fields present
\* to their JSON values.
Convert(data) ==
    IF ~AllPresent(data) THEN Return(Error("Missing required fields", 400))
    ELSE
    LET gender == GenderOf(Item(data, "gender"))
        age == PyFloat(Item(data, "age"))
        height == PyFloat(Item(data, "height"))
        weight == PyFloat(Item(data, "weight"))
        duration == PyFloat(Item(data, "duration"))
        workout_type == IF "workout_type" \in DOMAIN data
                        THEN data["workout_type"] ELSE JStr(NO_WORKOUT)
        raised == <<gender.exc, age.exc, height.exc, weight.exc, duration.exc>>
        range == RangeError(age.val, height.val, weight.val, duration.val)
    IN  IF \E i \in DOMAIN raised : raised[i] # "none"
        THEN Return(Except(raised[CHOOSE i \in DOMAIN raised :
                              /\ raised[i] # "none"
                              /\ \A j \in 1..(i - 1) : raised[j] = "none"]))
        ELSE IF range # "" THEN Return(Error(range, 400))
        ELSE Continue([NoLocal EXCEPT !.gender = gender.val, !.age = age.val,
                          !.height = height.val, !.weight = weight.val,
                          !.duration = duration.val, !.workout_type = workout_type])

(***************************************************************************)
(* Features and their reconciliation (src/app.py:78-109)                   *)
(***************************************************************************)
valid_workout_types == <<CARDIO, ENDURANCE, STRENGTH, NO_WORKOUT>>

\* f"workout_type_{wt}"
WorkoutColumn ==
    (CARDIO :> "workout_type_Cardio") @@ (ENDURANCE :> "workout_type_Endurance")
    @@ (STRENGTH :> "workout_type_Strength") @@ (NO_WORKOUT :> "workout_type_No Workout")

\* Lines 79-81: a workout type outside the list becomes "No Workout".
Normalized(workout_type) ==
    IF \E i \in DOMAIN valid_workout_types :
           workout_type = JStr(valid_workout_types[i])
    THEN workout_type ELSE JStr(NO_WORKOUT)

\* Lines 84-102: pd.DataFrame([features]), the columns in the order the dict
\* was written.
Features(l) ==
    LET wt == Normalized(l.workout_type)
        hot(i) == IF wt = JStr(valid_workout_types[i]) THEN 1 ELSE 0
    IN  Frame(
          <<"Age", "Gender", "Height", "Weight", "Duration", "Heart_Rate", "Body_Temp">>
            \o [i \in DOMAIN valid_workout_types |-> WorkoutColumn[valid_workout_types[i]]],
          <<Q(l.age.x, 10), Q(l.gender, 1), Q(l.height.x, 10), Q(l.weight.x, 10),
            Q(l.duration.x, 1800), l.heart_rate, l.body_temp>>
            \o [i \in DOMAIN valid_workout_types |-> Q(hot(i), 1)])

HasColumn(df, col) == \E i \in DOMAIN df.columns : df.columns[i] = col

\* Lines 105-107: every column of cols that the frame lacks is appended
\* with value 0.
RECURSIVE AddMissing(_, _)
AddMissing(df, cols) ==
    IF cols = <<>> THEN df
    ELSE AddMissing(
           IF HasColumn(df, Head(cols)) THEN df
           ELSE Frame(Append(df.columns, Head(cols)), Append(df.row, Q(0, 1))),
           Tail(cols))

\* Line 109: input_df[cols], the columns of cols in the order of cols.
Select(df, cols) ==
    Frame(cols,
          [i \in DOMAIN cols |->
              df.row[CHOOSE j \in DOMAIN df.columns : df.columns[j] = cols[i]]])

\* Lines 105-107 without line 109: the missing columns are added, and the
\* frame is left in the order it was built.
ReconcileUnordered(df, cols) == AddMissing(df, cols)

Reconcile(df, cols) == Select(AddMissing(df, cols), cols)

\* Line 112: model.predict(input_df) returns or raises, as the loaded model
\* decides.
Predict(mdl, df) ==
    IF mdl = "predicts" THEN [exc |-> "none", val |-> df]
    ELSE [exc |-> mdl, val |-> NoFrame]

\* calculate_calories as a whole, for one request served alone: the response
\* to `data` under the loaded predictor mdl and schema cols.
calculate_calories(data, mdl, cols) ==
    LET c == Convert(data)
        l == c.local
        heart_rate == estimate_heart_rate(l.age, l.workout_type, l.duration)
        body_temp == estimate_body_temp(l.duration, l.workout_type)
        e == [l EXCEPT !.heart_rate = heart_rate.val, !.body_temp = body_temp.val]
        prediction == Predict(mdl, Reconcile(Features(e), cols))
    IN  IF c.returned THEN c.response
        ELSE IF heart_rate.exc # "none" THEN Except(heart_rate.exc)
        ELSE IF body_temp.exc # "none" THEN Except(body_temp.exc)
        ELSE IF prediction.exc # "none" THEN Except(prediction.exc)
        ELSE Success(prediction.val, e.heart_rate, e.body_temp)

(***************************************************************************)
(* The requests and loaded models of the model                             *)
(***************************************************************************)
\* The keys a body may have.
Fields == {"gender", "age", "height", "weight", "duration", "workout_type"}

\* The reference body: every field present and valid.
Reference ==
    [gender |-> JStr(<<"M","a","l","e">>), age |-> JNum(300), height |-> JNum(1750),
     weight |-> JNum(700), duration |-> JNum(450), workout_type |-> JStr(CARDIO)]

\* What a field may hold instead of its reference value.
Alternatives ==
    [gender |-> {Absent, JStr(<<"F","e","m","a","l","e">>), JStr(<<"M","A","L","E">>), JNull},
     age |-> {Absent, JNum(50), JNum(99), JNum(100), JNum(1000), JNum(1001), JNum(1010),
              JStr(<<"1","0">>), JStr(<<"a","b","c">>), JStr(<<"n","a","n">>),
              JNull, JList, JBool(1)},
     height |-> {Absent, JNum(499), JNum(500), JNum(2500), JNum(2501),
                 JStr(<<"t","a","l","l">>), JNull},
     weight |-> {Absent, JNum(199), JNum(200), JNum(3000), JNum(3001),
                 JStr(<<" ","7","0",".","5"," ">>), JObj},
     duration |-> {Absent, JNum(0), JNum(9), JNum(10), JNum(899), JNum(900), JNum(901),
                   JNum(1800), JNum(3000), JNum(3001), JStr(<<"4","5">>),
                   JStr(<<"-","4","5">>), JStr(<<>>), JNull, JBool(1)},
     workout_type |-> {Absent, JStr(ENDURANCE), JStr(STRENGTH), JStr(NO_WORKOUT),
                       JStr(<<"Y","o","g","a">>), JStr(<<"c","a","r","d","i","o">>),
                       JNull, JNum(30), JList, JObj}]

\* Every change of one field.
Changes == UNION {{<<f, v>> : v \in Alternatives[f]} : f \in Fields}

\* The bodies that differ from the reference in at most n fields, as total
\* functions on Fields.
RECURSIVE Changed(_)
Changed(n) ==
    IF n = 0 THEN {Reference}
    ELSE LET fewer == Changed(n - 1)
             change(c) == {[b EXCEPT ![c[1]] = c[2]] :
                              b \in {d \in fewer : d[c[1]] = Reference[c[1]]}}
         IN  fewer \cup UNION {change(c) : c \in Changes}

\* The body as the handler sees it: a function on the fields present.
Body(total) == [f \in {g \in Fields : total[g] # Absent} |-> total[f]]

Bodies == {Body(b) : b \in Changed(MaxChanged)}

\* The bodies of the concurrent specification: one per outcome.
ConcBodies ==
    {Body(Reference),
     Body([Reference EXCEPT !.workout_type = Absent]),
     Body([Reference EXCEPT !.workout_type = JStr(<<"Y","o","g","a">>)]),
     Body([Reference EXCEPT !.age = JNum(1010)]),
     Body([Reference EXCEPT !.height = JStr(<<"t","a","l","l">>)]),
     Body([Reference EXCEPT !.duration = JNull])}

\* The columns calculate_calories produces, in its order.
Produced == Features(NoLocal).columns

\* The loaded schemas: the produced columns; those plus a column the handler
\* does not produce, reordered; fewer columns; and a schema that both adds
\* and omits columns.
Schemas ==
    {Produced,
     <<"BMI", "Gender", "Age">> \o SubSeq(Produced, 3, Len(Produced)),
     <<"Weight", "Age", "Duration", "Heart_Rate", "workout_type_Cardio">>,
     <<"Body_Temp", "Steps", "workout_type_No Workout", "Duration", "Sleep", "Age">>}

\* The loaded predictors: one that predicts, and two whose predict raises
\* the named exception.
Models == {"predicts", "ValueError", "RuntimeError"}

(***************************************************************************)
(* State                                                                   *)
(***************************************************************************)
Threads == 1..NumThreads

VARIABLES
    model,            \* the predictor loaded at start (line 12)
    FEATURE_COLUMNS,  \* the schema loaded with it (line 12)
    pc,               \* pc[t]: where thread t is in calculate_calories
    data,             \* data[t]: the body of the request thread t serves
    local,            \* local[t]: the handler's locals
    input_df,         \* input_df[t]: the handler's frame
    calls,            \* calls[t]: estimators and predictor called for the request
    sent              \* sent[t]: the responses returned for the request

vars == <<model, FEATURE_COLUMNS, pc, data, local, input_df, calls, sent>>

NoData == Body([f \in Fields |-> Absent])

Init ==
    /\ model \in Models
    /\ FEATURE_COLUMNS \in Schemas
    /\ pc = [t \in Threads |-> "idle"]
    /\ data = [t \in Threads |-> NoData]
    /\ local = [t \in Threads |-> NoLocal]
    /\ input_df = [t \in Threads |-> NoFrame]
    /\ calls = [t \in Threads |-> {}]
    /\ sent = [t \in Threads |-> <<>>]

(***************************************************************************)
(* calculate_calories, step by step                                        *)
(***************************************************************************)
\* The handler returns resp.
Respond(t, resp) ==
    /\ sent' = [sent EXCEPT ![t] = Append(@, resp)]
    /\ pc' = [pc EXCEPT ![t] = "done"]

\* Line 50: a request arrives, its body one of bodies, and thread t takes it.
Receive(t, bodies) ==
    /\ pc[t] = "idle"
    /\ \E body \in bodies : data' = [data EXCEPT ![t] = body]
    /\ pc' = [pc EXCEPT ![t] = "convert"]
    /\ UNCHANGED <<model, FEATURE_COLUMNS, local, input_df, calls, sent>>

\* Lines 51-72: presence, conversion and range checks.
Validate(t) ==
    /\ pc[t] = "convert"
    /\ LET c == Convert(data[t])
       IN  IF c.returned
           THEN Respond(t, c.response) /\ UNCHANGED local
           ELSE /\ local' = [local EXCEPT ![t] = c.local]
                /\ pc' = [pc EXCEPT ![t] = "estimate"]
                /\ UNCHANGED sent
    /\ UNCHANGED <<model, FEATURE_COLUMNS, data, input_df, calls>>

\* Lines 75-76: the two estimators, on the workout type as received.
Estimate(t) ==
    /\ pc[t] = "estimate"
    /\ LET l == local[t]
           heart_rate == estimate_heart_rate(l.age, l.workout_type, l.duration)
           body_temp == estimate_body_temp(l.duration, l.workout_type)
       IN  IF heart_rate.exc # "none"
           THEN /\ Respond(t, Except(heart_rate.exc))
                /\ calls' = [calls EXCEPT ![t] = @ \cup {"estimate_heart_rate"}]
                /\ UNCHANGED local
           ELSE IF body_temp.exc # "none"
           THEN /\ Respond(t, Except(body_temp.exc))
                /\ calls' = [calls EXCEPT ![t] =
                                @ \cup {"estimate_heart_rate", "estimate_body_temp"}]
                /\ UNCHANGED local
           ELSE /\ local' = [local EXCEPT ![t].heart_rate = heart_rate.val,
                                          ![t].body_temp = body_temp.val]
                /\ calls' = [calls EXCEPT ![t] =
                                @ \cup {"estimate_heart_rate", "estimate_body_temp"}]
                /\ pc' = [pc EXCEPT ![t] = "assemble"]
                /\ UNCHANGED sent
    /\ UNCHANGED <<model, FEATURE_COLUMNS, data, input_df>>

\* Assemble, with the columns the schema lacks appended to the module-level
\* list instead of being dropped from the frame.
AssembleExtendingSchema(t) ==
    /\ pc[t] = "assemble"
    /\ local' = [local EXCEPT ![t].workout_type = Normalized(@)]
    /\ FEATURE_COLUMNS' = AddMissing(Frame(FEATURE_COLUMNS, FEATURE_COLUMNS), Produced).columns
    /\ input_df' = [input_df EXCEPT ![t] = Reconcile(Features(local[t]), FEATURE_COLUMNS')]
    /\ pc' = [pc EXCEPT ![t] = "predict"]
    /\ UNCHANGED <<model, data, calls, sent>>

\* Lines 79-109: the features, reconciled against FEATURE_COLUMNS.
Assemble(t) ==
    /\ pc[t] = "assemble"
    /\ local' = [local EXCEPT ![t].workout_type = Normalized(@)]
    /\ input_df' = [input_df EXCEPT ![t] = Reconcile(Features(local[t]), FEATURE_COLUMNS)]
    /\ pc' = [pc EXCEPT ![t] = "predict"]
    /\ UNCHANGED <<model, FEATURE_COLUMNS, data, calls, sent>>

\* Lines 112-123: the prediction and the response.
PredictAndRespond(t) ==
    /\ pc[t] = "predict"
    /\ LET prediction == Predict(model, input_df[t])
       IN  IF prediction.exc # "none"
           THEN Respond(t, Except(prediction.exc))
           ELSE Respond(t, Success(prediction.val, local[t].heart_rate, local[t].body_temp))
    /\ calls' = [calls EXCEPT ![t] = @ \cup {"predict"}]
    /\ UNCHANGED <<model, FEATURE_COLUMNS, data, local, input_df>>

\* The request is over; the thread is free for the next one.
Finish(t) ==
    /\ pc[t] = "done"
    /\ pc' = [pc EXCEPT ![t] = "idle"]
    /\ data' = [data EXCEPT ![t] = NoData]
    /\ local' = [local EXCEPT ![t] = NoLocal]
    /\ input_df' = [input_df EXCEPT ![t] = NoFrame]
    /\ calls' = [calls EXCEPT ![t] = {}]
    /\ sent' = [sent EXCEPT ![t] = <<>>]
    /\ UNCHANGED <<model, FEATURE_COLUMNS>>

\* One worker thread, every body of Bodies.
Next ==
    \/ Receive(1, Bodies)
    \/ Validate(1)
    \/ Estimate(1)
    \/ Assemble(1)
    \/ PredictAndRespond(1)
    \/ Finish(1)

Spec == Init /\ [][Next]_vars

\* NumThreads worker threads, interleaved at every step.
NextConc ==
    \E t \in Threads :
        \/ Receive(t, ConcBodies)
        \/ Validate(t)
        \/ Estimate(t)
        \/ Assemble(t)
        \/ PredictAndRespond(t)
        \/ Finish(t)

SpecConc == Init /\ [][NextConc]_vars

(***************************************************************************)
(* Vocabulary of the properties                                            *)
(***************************************************************************)
Numeric == <<"age", "height", "weight", "duration">>

\* The documented inclusive ranges.
Ranges == [age |-> <<10, 100>>, height |-> <<50, 250>>,
           weight |-> <<20, 300>>, duration |-> <<1, 300>>]

RangeMessages ==
    [age |-> "Age must be between 10 and 100",
     height |-> "Height must be between 50 cm and 250 cm",
     weight |-> "Weight must be between 20 kg and 300 kg",
     duration |-> "Duration must be between 1 and 300 minutes"]

MissingFields == Error("Missing required fields", 400)
InvalidType ==
    Error("Invalid input type. Ensure numerical values for age, height, weight, and duration.", 400)

Served(t) == pc[t] = "done"
Response(t) == sent[t][1]

\* v is a number or a text that reads as one.
Parses(v) ==
    \/ v.t \in {"num", "bool"}
    \/ v.t = "str" /\ ParseFloat(v.s).exc = "none"

\* Field f of body d is present, a number, and outside its range.
OutOfRange(d, f) ==
    /\ f \in DOMAIN d
    /\ Parses(d[f])
    /\ ~Between(Ranges[f][1], PyFloat(d[f]).val, Ranges[f][2])

\* Gender is present and a text, and the four numbers are present, numeric
\* and in range.
OtherwiseValid(d) ==
    /\ "gender" \in DOMAIN d
    /\ d["gender"].t = "str"
    /\ \A i \in DOMAIN Numeric :
          /\ Numeric[i] \in DOMAIN d
          /\ Parses(d[Numeric[i]])
          /\ ~OutOfRange(d, Numeric[i])

Unrecognized(v) == \A i \in DOMAIN valid_workout_types : v # JStr(valid_workout_types[i])

\* The body d with the no-workout label as its workout type.
WithNoWorkout(d) ==
    [f \in DOMAIN d \cup {"workout_type"} |->
        IF f = "workout_type" THEN JStr(NO_WORKOUT) ELSE d[f]]

(***************************************************************************)
(* C1                                                                      *)
(***************************************************************************)
\* C1: the frame handed to model.predict has exactly the columns of
\* FEATURE_COLUMNS in that order; a schema column the handler produced keeps
\* the produced value, a schema column it did not produce is 0, and no
\* produced column outside the schema remains.
C1_FrameMatchesSchema ==
    \A t \in Threads :
        pc[t] = "predict" =>
            LET df == input_df[t]
                produced == Features(local[t])
            IN  /\ df.columns = FEATURE_COLUMNS
                /\ DOMAIN df.row = DOMAIN FEATURE_COLUMNS
                /\ \A i \in DOMAIN FEATURE_COLUMNS :
                      IF HasColumn(produced, FEATURE_COLUMNS[i])
                      THEN \E j \in DOMAIN produced.columns :
                              /\ produced.columns[j] = FEATURE_COLUMNS[i]
                              /\ df.row[i] = produced.row[j]
                      ELSE df.row[i] = Q(0, 1)

\* An accepted request is about to be predicted under a schema that both adds
\* a column and omits one.
C1_Witness ==
    \E t \in Threads :
        /\ pc[t] = "predict"
        /\ \E i \in DOMAIN FEATURE_COLUMNS : FEATURE_COLUMNS[i] = "Steps"
        /\ \A i \in DOMAIN FEATURE_COLUMNS : FEATURE_COLUMNS[i] # "Height"
        /\ local[t].height = Fin(1750)

(***************************************************************************)
(* C2                                                                      *)
(***************************************************************************)
\* C2: a request on which model.predict raised is answered with status 500,
\* and a request rejected before any estimator ran (missing field, type,
\* range) is answered with status 400.
C2_StatusTellsFailureFromBadRequest ==
    \A t \in Threads :
        Served(t) =>
            /\ ("predict" \in calls[t] /\ model # "predicts") => Response(t).status = 500
            /\ calls[t] = {} => Response(t).status = 400

(***************************************************************************)
(* C3                                                                      *)
(***************************************************************************)
\* C3: when every required field is present and one of age, height, weight,
\* duration is neither a number nor a text that reads as one, the answer is
\* the invalid-type error with status 400.
C3_NonNumericIsInvalidType ==
    \A t \in Threads :
        ( /\ Served(t)
          /\ Fields \subseteq DOMAIN data[t]
          /\ \E i \in DOMAIN Numeric : ~Parses(data[t][Numeric[i]]) )
        => sent[t] = <<InvalidType>>

(***************************************************************************)
(* C4                                                                      *)
(***************************************************************************)
\* C4: a request that lacks one of gender, age, height, weight, duration goes
\* from the checks straight to the missing-fields error (status 400),
\* whatever its other fields hold, and neither estimator nor the predictor is
\* called for it.
C4_MissingFieldFirst ==
    \A t \in Threads :
        ( /\ pc[t] \notin {"idle", "convert"}
          /\ \E f \in Fields \ {"workout_type"} : f \notin DOMAIN data[t] )
        => /\ Served(t)
           /\ sent[t] = <<MissingFields>>
           /\ calls[t] = {}

\* A served request that lacks age and whose height would not convert.
C4_Witness ==
    \E t \in Threads :
        /\ Served(t)
        /\ "age" \notin DOMAIN data[t]
        /\ "height" \in DOMAIN data[t]
        /\ ~Parses(data[t]["height"])

(***************************************************************************)
(* C5                                                                      *)
(***************************************************************************)
\* C5: a request without workout_type that is otherwise valid is answered as
\* the same request with the no-workout label is, with status 200 when the
\* predictor predicts.
C5_WorkoutTypeOptional ==
    \A t \in Threads :
        ( /\ Served(t)
          /\ "workout_type" \notin DOMAIN data[t]
          /\ OtherwiseValid(data[t]) )
        => /\ Response(t) = calculate_calories(WithNoWorkout(data[t]), model, FEATURE_COLUMNS)
           /\ model = "predicts" => Response(t).status = 200

(***************************************************************************)
(* C6                                                                      *)
(***************************************************************************)
\* C6: in an otherwise valid request, a workout type that is none of the four
\* labels gives the heart rate, the body temperature, the frame and the
\* answer of the same request with the no-workout label.
C6_UnrecognizedIsNoWorkout ==
    \A t \in Threads :
        ( /\ Fields \subseteq DOMAIN data[t]
          /\ OtherwiseValid(data[t])
          /\ Unrecognized(data[t]["workout_type"]) )
        => LET l == Convert(data[t]).local
               none == JStr(NO_WORKOUT)
           IN  /\ pc[t] \in {"assemble", "predict"} =>
                     /\ local[t].heart_rate = estimate_heart_rate(l.age, none, l.duration).val
                     /\ local[t].body_temp = estimate_body_temp(l.duration, none).val
               /\ pc[t] = "predict" =>
                     /\ local[t].workout_type = none
                     /\ input_df[t] = Reconcile(Features(local[t]), FEATURE_COLUMNS)
               /\ Served(t) =>
                     Response(t) = calculate_calories(WithNoWorkout(data[t]), model, FEATURE_COLUMNS)

(***************************************************************************)
(* C7                                                                      *)
(***************************************************************************)
\* C7: with every required field present, the answer is a range error exactly
\* when age, height, weight and duration all read as numbers and one of them
\* is outside its inclusive range; the error is that of the first such field
\* in the order age, height, weight, duration; and a request with both a
\* value out of range and a value that does not read as a number gets the
\* invalid-type error.
C7_RangeErrorExactly ==
    \A t \in Threads :
        (Served(t) /\ Fields \subseteq DOMAIN data[t]) =>
            LET d == data[t]
                allParse == \A i \in DOMAIN Numeric : Parses(d[Numeric[i]])
                someOut == \E i \in DOMAIN Numeric : OutOfRange(d, Numeric[i])
                first == CHOOSE i \in DOMAIN Numeric :
                            /\ OutOfRange(d, Numeric[i])
                            /\ \A j \in 1..(i - 1) : ~OutOfRange(d, Numeric[j])
                isRangeError == \E i \in DOMAIN Numeric :
                                   Response(t).error = RangeMessages[Numeric[i]]
            IN  /\ isRangeError <=> (allParse /\ someOut)
                /\ (allParse /\ someOut) =>
                       sent[t] = <<Error(RangeMessages[Numeric[first]], 400)>>
                /\ (someOut /\ ~allParse) => sent[t] = <<InvalidType>>

(***************************************************************************)
(* C8                                                                      *)
(***************************************************************************)
\* C8 (amended): for the reference request {Male, 30, 175, 70, 45, Cardio}
\* the estimators return heart rate 146.5 and body temperature 38.12: the sum
\* 37 + 1.5 * (45 / 60) is exactly 38.125, and round() takes the even
\* neighbour.
C8_ReferenceEstimates ==
    \A t \in Threads :
        (pc[t] \in {"assemble", "predict", "done"} /\ data[t] = Body(Reference)) =>
            /\ local[t].heart_rate.num * 2 = 293 * local[t].heart_rate.den
            /\ local[t].body_temp = Q(3812, 100)

\* C8 as stated: heart rate 146.5 and body temperature 38.13.
C8_ReferenceEstimatesAsStated ==
    \A t \in Threads :
        (pc[t] \in {"assemble", "predict", "done"} /\ data[t] = Body(Reference)) =>
            /\ local[t].heart_rate.num * 2 = 293 * local[t].heart_rate.den
            /\ local[t].body_temp = Q(3813, 100)

\* The estimators have run on the reference request.
C8_Witness ==
    \E t \in Threads :
        /\ pc[t] = "assemble"
        /\ data[t] = Body(Reference)
        /\ calls[t] = {"estimate_heart_rate", "estimate_body_temp"}

(***************************************************************************)
(* C9                                                                      *)
(***************************************************************************)
\* C9: the heart rate estimated for an accepted request (age in [10,100],
\* duration in [1,300], any workout type) lies in [60,200], as does the
\* estimate for its age and workout type at every whole number of minutes m
\* in [1,300]; and against the estimate at m minutes: a longer
\* duration never gives a higher rate, gives a strictly lower one while the
\* request's duration is below 90, and gives the same one when both
\* durations are 90 or more.
C9_HeartRateBoundedAndMonotone ==
    \A t \in Threads :
        pc[t] = "assemble" =>
            LET l == local[t]
                hr == l.heart_rate
            IN  /\ hr.den = HrDen
                /\ 60 * HrDen <= hr.num
                /\ hr.num <= 200 * HrDen
                /\ \A m \in 1..300 :
                      LET other == estimate_heart_rate(l.age, l.workout_type, Fin(m * 10)).val
                      IN  /\ 60 * HrDen <= other.num
                          /\ other.num <= 200 * HrDen
                          /\ m * 10 >= l.duration.x => other.num <= hr.num
                          /\ (m * 10 > l.duration.x /\ l.duration.x < 900) => other.num < hr.num
                          /\ (m * 10 >= 900 /\ l.duration.x >= 900) => other.num = hr.num

\* A heart rate has been estimated for the oldest age and the longest
\* duration, where the floor of the duration factor applies.
C9_Witness ==
    \E t \in Threads :
        /\ pc[t] = "assemble"
        /\ local[t].age = Fin(1000)
        /\ local[t].duration = Fin(3000)
        /\ "estimate_heart_rate" \in calls[t]

(***************************************************************************)
(* C10                                                                     *)
(***************************************************************************)
\* C10: whatever the interleaving of the threads, no step changes model or
\* FEATURE_COLUMNS; a request has at most one response, and exactly one once
\* served; and that response is the one calculate_calories gives the same
\* body when it is served alone.
C10_RequestsDoNotInteract ==
    /\ [][model' = model /\ FEATURE_COLUMNS' = FEATURE_COLUMNS]_vars
    /\ [](\A t \in Threads :
            /\ Len(sent[t]) <= 1
            /\ Served(t) =>
                  sent[t] = <<calculate_calories(data[t], model, FEATURE_COLUMNS)>>)

\* Two threads have served different requests, one accepted and one rejected.
C10_Witness ==
    \E t, u \in Threads :
        /\ t # u
        /\ Served(t) /\ Served(u)
        /\ Response(t).status = 200
        /\ Response(u).status = 400
        /\ calls[u] = {}

====
